---- MODULE Spec2Model ----
(***************************************************************************)
(* Model of the poker table's bot (bot.js): the action queue that paces    *)
(* bot moves (enqueueBotAction / processBotQueue) and the decision engine  *)
(* (chooseBotAction) with the evaluators it calls.                         *)
(*                                                                         *)
(* Two specifications share the module's variables:                        *)
(*   SpecQueue  the action queue under enqueues, timer expiries and time   *)
(*   SpecBot    one call of chooseBotAction on a drawn player and context  *)
(***************************************************************************)
EXTENDS Integers, Sequences, FiniteSets

VARIABLES
    botActionQueue,        \* bot.js: const botActionQueue = []  (ids of the queued callbacks)
    processingBotActions,  \* bot.js: let processingBotActions = false
    timers,                \* deadlines of the outstanding setTimeout(processBotQueue, ...) calls
    now,                   \* the event loop's clock, in milliseconds
    enqueued,              \* history: every enqueueBotAction call [id, at, nested], in call order
    executed,              \* history: every fn() call [id, at], in call order
    stalled,               \* TRUE once an fn() has thrown out of processBotQueue
    ctx,                   \* chooseBotAction's ctx (currentBet, pot, ..., players, lastRaise)
    playerSeat,            \* chooseBotAction's player: the seat of ctx.players that acts
    communityCards,        \* the community cards on the table (read from the page)
    randomValues,          \* the values Math.random() returned during the call, in order
    decision,              \* the decision chooseBotAction returned
    isBluff,               \* chooseBotAction's isBluff
    path,                  \* history: the branches the call went through
    locals,                \* the call's derived locals (needToCall, strength, thresholds, ...)
    pc,                    \* "idle" (no call), "ready" (before the call), "done" (returned)
    fnName,                \* the evaluator function called on its own ("none": no such call)
    fnArgs,                \* its card arguments, in order (hole cards first, then the board)
    fnResult,              \* [done |-> FALSE] before the call, then [done |-> TRUE, value]
    kvRecord,              \* api/main: the value of kv entry ["table", tableId] (Null: no entry)
    postHandlers,          \* api/main: the POST /state handlers, in arrival order
    storedLog,             \* history: the version of every record kv.set stored, in order
    visibilityState,       \* singleView.js: document.visibilityState
    isPolling,             \* singleView.js: let isPolling = false
    pollTimeoutId,         \* singleView.js: let pollTimeoutId = null
    pollTimers,            \* ids of the outstanding setTimeout(pollState, ...) calls
    pollCalls,             \* the suspended pollState calls: each its await and its GET /state
    lastVersion,           \* singleView.js: let lastVersion = 0
    seenState              \* history: the state of the last payload the view received

qvars == <<botActionQueue, processingBotActions, timers, now, enqueued, executed, stalled>>

bvars == <<ctx, playerSeat, communityCards, randomValues, decision, isBluff, path, locals, pc>>

fvars == <<fnName, fnArgs, fnResult>>

\* The backend's variables and the hole-cards view's.
svars == <<kvRecord, postHandlers, storedLog, visibilityState, isPolling, pollTimeoutId,
           pollTimers, pollCalls, lastVersion, seenState>>

vars == <<qvars, bvars, fvars, svars>>

\* JavaScript's null; an absent kv entry, an absent request.
Null == [null |-> TRUE]
\* pollTimeoutId = null (timer ids are positive).
NullId == 0

(***************************************************************************)
(* Bounds of the queue model                                               *)
(***************************************************************************)
\* Number of enqueueBotAction calls in a run.
MaxActions == 4
\* Clock ticks in a run (each of TickMs milliseconds).
MaxTicks == 6
\* Calls of enqueueBotAction an executing action may make.
MaxNested == 1

\* Granularity of the clock, in milliseconds; BOT_ACTION_DELAY is 3 ticks.
TickMs == 500

(***************************************************************************)
(* Action queue                                                            *)
(***************************************************************************)
BOT_ACTION_DELAY == 1500

\* Variant of setTimeout: the delay is dropped, the callback is due at once.
setTimeout_nodelay(ts, t, delay) == Append(ts, t)

\* setTimeout(processBotQueue, delay): one more outstanding timer.
setTimeout(ts, t, delay) == Append(ts, t + delay)

\* Variant of EnqueueStartsTimer: every enqueue starts a timer.
EnqueueStartsTimer_always(processing) == TRUE

\* Variant of EnqueueStartsTimer: no enqueue starts a timer.
EnqueueStartsTimer_never(processing) == FALSE

\* The guard of enqueueBotAction: start a timer only when none is running.
EnqueueStartsTimer(processing) == ~processing

\* enqueueBotAction(fn) on the queue state s = [q, processing, timers] at time t.
enqueueBotAction(s, id, t) ==
    LET q1 == Append(s.q, id)
    IN  IF EnqueueStartsTimer(s.processing)
        THEN [q |-> q1, processing |-> TRUE,
              timers |-> setTimeout(s.timers, t, BOT_ACTION_DELAY)]
        ELSE [q |-> q1, processing |-> s.processing, timers |-> s.timers]

\* Variant of QueueShift: takes the newest element (pop instead of shift).
QueueShift_pop(q) == [fn |-> q[Len(q)], rest |-> SubSeq(q, 1, Len(q) - 1)]

\* botActionQueue.shift(): the element taken and the rest.
QueueShift(q) == [fn |-> Head(q), rest |-> Tail(q)]

RECURSIVE EnqueueMany(_, _, _, _)
\* k nested enqueueBotAction calls made by an executing action.
EnqueueMany(s, firstId, k, t) ==
    IF k = 0 THEN s
    ELSE EnqueueMany(enqueueBotAction(s, firstId, t), firstId + 1, k - 1, t)

RECURSIVE LogMany(_, _, _, _)
LogMany(log, firstId, k, t) ==
    IF k = 0 THEN log
    ELSE LogMany(Append(log, [id |-> firstId, at |-> t, nested |-> TRUE]),
                 firstId + 1, k - 1, t)

RemoveAt(s, i) == [j \in 1..(Len(s) - 1) |-> IF j < i THEN s[j] ELSE s[j + 1]]

QState == [q |-> botActionQueue, processing |-> processingBotActions, timers |-> timers]

InitQueue ==
    /\ botActionQueue = <<>>
    /\ processingBotActions = FALSE
    /\ timers = <<>>
    /\ now = 0
    /\ enqueued = <<>>
    /\ executed = <<>>
    /\ stalled = FALSE
    \* no decision is being taken
    /\ ctx = [players |-> <<>>]
    /\ playerSeat = 0
    /\ communityCards = <<>>
    /\ randomValues = <<>>
    /\ decision = [action |-> "none"]
    /\ isBluff = FALSE
    /\ path = {}
    /\ locals = [preflop |-> TRUE]
    /\ pc = "idle"
    \* no evaluator function is called on its own
    /\ fnName = "none"
    /\ fnArgs = <<>>
    /\ fnResult = [done |-> FALSE]
    \* no table is synchronised and no hole-cards view is open
    /\ kvRecord = Null
    /\ postHandlers = <<>>
    /\ storedLog = <<>>
    /\ visibilityState = "hidden"
    /\ isPolling = FALSE
    /\ pollTimeoutId = NullId
    /\ pollTimers = {}
    /\ pollCalls = <<>>
    /\ lastVersion = 0
    /\ seenState = 0

\* A caller outside the queue (the game loop) calls enqueueBotAction(fn).
Enqueue ==
    /\ Len(enqueued) < MaxActions
    /\ now <= MaxTicks * TickMs
    /\ LET id == Len(enqueued) + 1
           s  == enqueueBotAction(QState, id, now)
       IN  /\ botActionQueue' = s.q
           /\ processingBotActions' = s.processing
           /\ timers' = s.timers
           /\ enqueued' = Append(enqueued, [id |-> id, at |-> now, nested |-> FALSE])
    /\ UNCHANGED <<now, executed, stalled, bvars, fvars, svars>>

\* A timer expires and the event loop runs processBotQueue to its end. The
\* action taken from the queue may call enqueueBotAction itself (nested) and
\* may throw, which leaves processBotQueue at the fn() line.
ProcessBotQueue ==
    \E i \in 1..Len(timers) :
      /\ timers[i] <= now
      /\ LET ts == RemoveAt(timers, i)
         IN  IF Len(botActionQueue) = 0
             THEN /\ processingBotActions' = FALSE
                  /\ timers' = ts
                  /\ UNCHANGED <<botActionQueue, now, enqueued, executed, stalled, bvars, fvars, svars>>
             ELSE \E nested \in 0..MaxNested, throws \in BOOLEAN :
                    /\ Len(enqueued) + nested <= MaxActions
                    /\ LET sh == QueueShift(botActionQueue)
                           s0 == [q |-> sh.rest, processing |-> processingBotActions,
                                  timers |-> ts]
                           s1 == EnqueueMany(s0, Len(enqueued) + 1, nested, now)
                       IN  /\ executed' = Append(executed, [id |-> sh.fn, at |-> now])
                           /\ enqueued' = LogMany(enqueued, Len(enqueued) + 1, nested, now)
                           /\ botActionQueue' = s1.q
                           /\ stalled' = (stalled \/ throws)
                           /\ IF throws
                              THEN /\ processingBotActions' = s1.processing
                                   /\ timers' = s1.timers
                              ELSE IF Len(s1.q) > 0
                              THEN /\ processingBotActions' = s1.processing
                                   /\ timers' = setTimeout(s1.timers, now, BOT_ACTION_DELAY)
                              ELSE /\ processingBotActions' = FALSE
                                   /\ timers' = s1.timers
                           /\ UNCHANGED <<now, bvars, fvars, svars>>

\* Time passes. Timers never fire early; they may fire late. The clock of a
\* run stops after MaxTicks ticks, except that it still reaches the deadline
\* of a timer that is waiting.
Tick ==
    /\ \/ now < MaxTicks * TickMs
       \/ \E i \in 1..Len(timers) : timers[i] > now
    /\ now' = now + TickMs
    /\ UNCHANGED <<botActionQueue, processingBotActions, timers, enqueued, executed, stalled,
                   bvars, fvars, svars>>

NextQueue == Enqueue \/ ProcessBotQueue \/ Tick

SpecQueue == InitQueue /\ [][NextQueue]_vars

\* The event loop: a due timer's callback is eventually run, and time passes.
SpecQueueFair ==
    InitQueue /\ [][NextQueue]_vars /\ WF_vars(ProcessBotQueue) /\ WF_vars(Tick)

(***************************************************************************)
(* Cards. A card code such as "AC" is the pair of its two characters:      *)
(* code[0] is the rank character and code[1] the suit character.           *)
(***************************************************************************)
Card(r, s) == [r |-> r, s |-> s]

\* const order = "23456789TJQKA" (preflopHandScore), as a sequence of characters.
order == <<"2", "3", "4", "5", "6", "7", "8", "9", "T", "J", "Q", "K", "A">>

Suits == {"C", "D", "H", "S"}

\* The 0-based position of every rank character in order.
OrderIndex == [r \in {order[i] : i \in 1..Len(order)} |->
                 (CHOOSE i \in 1..Len(order) : order[i] = r) - 1]

\* order.indexOf(r)
indexOf(r) == OrderIndex[r]

\* The rank of a card as a number, 2..14 (rankMap of evaluateBoardTexture; the
\* straight-draw code reads new Card(c).rank on the same scale: ace = 14).
rankMap(r) == indexOf(r) + 2

\* Math.max / Math.min over a non-empty finite set of integers.
SetMax(S) == CHOOSE x \in S : \A y \in S : y <= x
SetMin(S) == CHOOSE x \in S : \A y \in S : x <= y
Max(a, b) == IF a >= b THEN a ELSE b
Min(a, b) == IF a <= b THEN a ELSE b
Abs(a) == IF a >= 0 THEN a ELSE -a

\* The positions of a sequence (a hand or a board) that satisfy a test.
RankCount(cards, n) == Cardinality({i \in DOMAIN cards : rankMap(cards[i].r) = n})
SuitCount(cards, s) == Cardinality({i \in DOMAIN cards : cards[i].s = s})

\* The set of ranks present, the ace also counted as 1 (wheel).
RanksWithWheel(cards) ==
    LET ranks == {rankMap(cards[i].r) : i \in DOMAIN cards}
    IN  IF 14 \in ranks THEN ranks \cup {1} ELSE ranks

(***************************************************************************)
(* Preflop hand evaluation. Scores are kept in halves (score * 2), so that *)
(* the half-point entries of the base table stay integers.                 *)
(***************************************************************************)
\* base[r] * 2
base2(r) ==
    CASE r = "A" -> 20 [] r = "K" -> 16 [] r = "Q" -> 14 [] r = "J" -> 12
      [] r = "T" -> 10 [] r = "9" -> 9  [] r = "8" -> 8  [] r = "7" -> 7
      [] r = "6" -> 6  [] r = "5" -> 5  [] r = "4" -> 4  [] r = "3" -> 3
      [] r = "2" -> 2

\* Variant of NeedsSwap: the cards are never put in rank order.
NeedsSwap_never(i1, i2) == FALSE

\* if (i1 < i2): the higher rank is put first.
NeedsSwap(i1, i2) == i1 < i2

\* Variant of PairDoubled: the doubled score is not floored.
PairDoubled_nofloor(sc) == sc * 2

\* score *= 2; if (score < 5) score = 5  (in halves)
PairDoubled(sc) == IF sc * 2 < 10 THEN 10 ELSE sc * 2

\* Variant of SuitedBonus: the comparison of the suits is inverted.
SuitedBonus_inverted(s1, s2) == IF s1 # s2 THEN 4 ELSE 0

\* if (s1 === s2) score += 2  (in halves)
SuitedBonus(s1, s2) == IF s1 = s2 THEN 4 ELSE 0

\* preflopHandScore(cardA, cardB) * 2
preflopHandScore(cardA, cardB) ==
    LET swap == NeedsSwap(indexOf(cardA.r), indexOf(cardB.r))
        r1 == IF swap THEN cardB.r ELSE cardA.r
        r2 == IF swap THEN cardA.r ELSE cardB.r
        s1 == IF swap THEN cardB.s ELSE cardA.s
        s2 == IF swap THEN cardA.s ELSE cardB.s
        i1 == indexOf(r1)
        i2 == indexOf(r2)
        sc0 == base2(r1)
        sc1 == IF r1 = r2 THEN PairDoubled(sc0) ELSE sc0
        sc2 == sc1 + SuitedBonus(s1, s2)
        gap == i1 - i2 - 1
        sc3 == IF gap = 1 THEN sc2 - 2
               ELSE IF gap = 2 THEN sc2 - 4
               ELSE IF gap = 3 THEN sc2 - 8
               ELSE IF gap >= 4 THEN sc2 - 10
               ELSE sc2
        sc4 == IF gap <= 1 /\ i1 < indexOf("Q") THEN sc3 + 2 ELSE sc3
        sc5 == IF sc4 < 0 THEN 0 ELSE sc4
    IN  Min(20, sc5)

(***************************************************************************)
(* The ranked-hand evaluator (pokersolver's Hand.solve), which bot.js      *)
(* imports: the category of the best five-card hand among the given cards, *)
(* as its ordinal rank (1 = high card ... 9 = straight flush), and for a   *)
(* pair the rank of the paired cards (hand.cards[0].rank).                 *)
(***************************************************************************)
HasStraight(ranks) ==
    \E start \in 1..10 : \A k \in 0..4 : (start + k) \in ranks

\* The numeric ranks of the cards, in the cards' order.
RankSeq(cards) == [i \in DOMAIN cards |-> rankMap(cards[i].r)]

\* The ranks that occur at least k times.
Multiples(rs, k) ==
    {r \in {rs[i] : i \in DOMAIN rs} : Cardinality({i \in DOMAIN rs : rs[i] = r}) >= k}

WithWheel(ranks) == IF 14 \in ranks THEN ranks \cup {1} ELSE ranks

HasStraightFlush(rs, cards) ==
    \E s \in Suits :
        /\ Cardinality({i \in DOMAIN cards : cards[i].s = s}) >= 5
        /\ HasStraight(WithWheel({rs[i] : i \in {j \in DOMAIN cards : cards[j].s = s}}))

\* The category's ordinal rank from the groups of equal ranks and the flags.
HandCategory(pairs, trips, quads, flush, straight, straightFlush) ==
    IF straightFlush THEN 9
    ELSE IF quads # {} THEN 8
    ELSE IF \E t \in trips : pairs \ {t} # {} THEN 7
    ELSE IF flush THEN 6
    ELSE IF straight THEN 5
    ELSE IF trips # {} THEN 4
    ELSE IF Cardinality(pairs) >= 2 THEN 3
    ELSE IF pairs # {} THEN 2
    ELSE 1

HandOf(rank, pairs) ==
    [rank |-> rank,
     name |-> IF rank = 2 THEN "Pair" ELSE "Other",
     top  |-> IF rank = 2 THEN SetMax(pairs) ELSE 0]

HandOfRanks(rs, cards, pairs) ==
    HandOf(HandCategory(pairs, Multiples(rs, 3), Multiples(rs, 4),
                        \E s \in Suits : Cardinality({i \in DOMAIN cards : cards[i].s = s}) >= 5,
                        HasStraight(WithWheel({rs[i] : i \in DOMAIN rs})),
                        HasStraightFlush(rs, cards)),
           pairs)

HandSolveRanks(rs, cards) == HandOfRanks(rs, cards, Multiples(rs, 2))

\* Hand.solve(cards): [rank, name, top]
HandSolve(cards) == HandSolveRanks(RankSeq(cards), cards)

(***************************************************************************)
(* Post-flop board evaluation                                              *)
(***************************************************************************)
isPocketPair(hole) == hole[1].r = hole[2].r

HandContextOf(hand, highestBoard, pocketPair) ==
    IF hand.name = "Pair"
    THEN [isTopPair  |-> hand.top = highestBoard,
          isOverPair |-> pocketPair /\ hand.top > highestBoard]
    ELSE [isTopPair |-> FALSE, isOverPair |-> FALSE]

analyzeHandContext(hole, board) ==
    HandContextOf(HandSolve(hole \o board),
                  SetMax({rankMap(board[i].r) : i \in DOMAIN board}),
                  isPocketPair(hole))

\* How many ranks of the window start..start+4 are present.
WindowCount(unique, start) == Cardinality({r \in start..(start + 4) : r \in unique})

\* The straight-draw loop: the first window, in the order start = 1..10, that
\* holds 5 or 4 of its ranks ends the loop (break) and decides the flag.
StraightDrawLoop(unique) ==
    LET hits == {start \in 1..10 : WindowCount(unique, start) >= 4}
    IN  IF hits = {} THEN FALSE
        ELSE WindowCount(unique, SetMin(hits)) = 4

analyzeDrawPotential(hole, board) ==
    LET allCards == hole \o board
        suitCounts == {SuitCount(allCards, s) : s \in Suits}
        hasFlush == \E c \in suitCounts : c >= 5
    IN  [flushDraw |-> (~hasFlush) /\ (\E c \in suitCounts : c = 4),
         straightDraw |-> StraightDrawLoop(RanksWithWheel(allCards)),
         outs |-> 0]

\* textureRisk is a multiple of 1/36 for boards of 3 to 5 cards; it is kept
\* as that numerator.
TextureUnit == 36

\* The longest run of consecutive ranks in a set of ranks (at least 1).
\* Variant of MaxConsecutive: counts the ranks instead of the longest run.
MaxConsecutive_count(unique) == Cardinality(unique)

MaxConsecutive(unique) ==
    SetMax({1} \cup {k \in 1..Cardinality(unique) :
                        \E a \in unique : \A j \in 0..(k - 1) : (a + j) \in unique})

\* evaluateBoardTexture(board) * 36
evaluateBoardTexture(board) ==
    IF Len(board) < 3 THEN 0
    ELSE
      LET L == Len(board)
          maxRankCount == SetMax({RankCount(board, r) : r \in 2..14})
          maxSuitCount == SetMax({SuitCount(board, s) : s \in Suits})
          maxConsecutive == MaxConsecutive(RanksWithWheel(board))
          \* each risk as a fraction num/den
          pairNum == IF maxRankCount > 1 THEN maxRankCount - 1 ELSE 0
          suitNum == maxSuitCount - 1
          connNum == IF maxConsecutive >= 3 THEN Max(0, maxConsecutive - 2) ELSE 0
          \* (conn/(L-2) + suit/(L-1) + pair/(L-1)) / 3, in 36ths
          sum36 == ((connNum * (L - 1) + (suitNum + pairNum) * (L - 2)) * TextureUnit)
                     \div (3 * (L - 1) * (L - 2))
      IN  Max(0, Min(TextureUnit, sum36))

(***************************************************************************)
(* Decision engine: configuration                                          *)
(***************************************************************************)
MAX_RAISES_PER_ROUND == 3
OPPONENT_THRESHOLD == 3
MIN_HANDS_FOR_WEIGHT == 10
WEIGHT_GROWTH == 10
\* The all-in defense thresholds on strengthRatio, in thousandths (0.85, 0.5).
ALLIN_HAND_PREFLOP == 850
ALLIN_HAND_POSTFLOP == 500

(***************************************************************************)
(* Real numbers. bot.js computes in IEEE doubles; the model computes the   *)
(* same expressions exactly, on integers that count 1/Unit. Every constant *)
(* of the decision code is a multiple of 1/Unit for tables of up to three  *)
(* active players; the weight of the opponent model (an exponential) is    *)
(* rounded to two decimals. Hand strength stays in halves (strength * 2).  *)
(***************************************************************************)
Unit == 36000

\* m / 1000 as a real, e.g. Milli(550) is 0.55.
Milli(m) == m * (Unit \div 1000)

\* x * (m / 1000) for a real x.
ScaleMilli(x, m) == (x * m) \div 1000

\* x * (1 - textureRisk * f / 1000... ) is only needed with f = 0.5:
\* x * (1 - textureRisk * 0.5), textureRisk given in 36ths.
TimesOneMinusHalfTexture(x, tr36) == (x * (2 * TextureUnit - tr36)) \div (2 * TextureUnit)

\* textureRisk (in 36ths) times m / 1000, as a real.
TextureMilli(tr36, m) == (tr36 * Milli(m)) \div TextureUnit

\* Random draws: a value of Math.random() is r / RandomUnit, 0 <= r < RandomUnit.
RandomUnit == 40

\* Math.random() < m / 1000
RandomLt(r, m) == r * 1000 < m * RandomUnit

\* Math.random() * (w / 1000) - (o / 1000), as a real.
Jitter(r, w, o) == (r * Milli(w)) \div RandomUnit - Milli(o)

\* Math.round(x / 10) * 10 for a real x >= 0 (halves round up), as an integer.
roundTo10(x) == 10 * ((x + 5 * Unit) \div (10 * Unit))

STRENGTH_TIE_DELTA == Milli(250)
ODDS_TIE_DELTA == Milli(20)
AGG_FACTOR == Milli(100)
THRESHOLD_FACTOR == Milli(300)

(***************************************************************************)
(* Opponent model                                                          *)
(***************************************************************************)
\* Fractions n/d with d > 0, for the per-opponent ratios and their averages.
Frac(n, d) == [n |-> n, d |-> d]
FracAdd(a, b) == Frac(a.n * b.d + b.n * a.d, a.d * b.d)
FracLt(a, b) == a.n * b.d < b.n * a.d
FracMin(a, b) == IF FracLt(b, a) THEN b ELSE a

RECURSIVE FracSum(_, _)
\* opponents.reduce((s, p) => s + f(p), 0)
FracSum(f(_), opponents) ==
    IF opponents = <<>> THEN Frac(0, 1)
    ELSE FracAdd(FracSum(f, Tail(opponents)), f(Head(opponents)))

FracAvg(f(_), opponents) ==
    LET t == FracSum(f, opponents) IN Frac(t.n, t.d * Len(opponents))

calcFoldRate(p) == IF p.stats.hands > 0 THEN Frac(p.stats.folds, p.stats.hands) ELSE Frac(0, 1)

avgFoldRate(opponents) ==
    IF Len(opponents) = 0 THEN Frac(0, 1) ELSE FracAvg(calcFoldRate, opponents)

VpipRate(p) == Frac(p.stats.vpip + 1, p.stats.hands + 2)
AggRate(p) == Frac(p.stats.aggressiveActs + 1, p.stats.calls + 1)
HandsSeen(p) == Frac(p.stats.hands, 1)

RECURSIVE ExpTerms(_, _, _, _)
\* The Taylor series of exp(-x), x = x100 / 100, in millionths: the sum of the
\* terms from the k-th one (term) on, up to the last-th.
ExpTerms(x100, k, term, last) ==
    IF k > last THEN 0
    ELSE (IF k % 2 = 0 THEN term ELSE -term)
           + ExpTerms(x100, k + 1, (term * x100) \div (100 * (k + 1)), last)

\* Math.exp(-x100 / 100), in millionths.
ExpNeg(x100) == ExpTerms(x100, 0, 1000000, 18)

\* Variant of Weight: the minimum number of hands is not looked at.
Weight_always(h) == Milli(500)

\* weight = avgHands < MIN_HANDS_FOR_WEIGHT ? 0
\*        : 1 - Math.exp(-(avgHands - MIN_HANDS_FOR_WEIGHT) / WEIGHT_GROWTH)
\* as a real rounded to two decimals; avgHands is the fraction h.
Weight(h) ==
    IF FracLt(h, Frac(MIN_HANDS_FOR_WEIGHT, 1)) THEN 0
    ELSE LET x100 == ((h.n - MIN_HANDS_FOR_WEIGHT * h.d) * 100) \div (h.d * WEIGHT_GROWTH)
             w100 == (1000000 - ExpNeg(x100) + 5000) \div 10000
         IN  Milli(10 * w100)

(***************************************************************************)
(* chooseBotAction: the values derived from the player and the context     *)
(* before the decision (bot.js, from needToCall to the opponent model)     *)
(***************************************************************************)
\* players.filter(keep), as the sequence of the kept seats (1-based indices).
RECURSIVE FilterSeats(_, _, _)
FilterSeats(players, keep(_), i) ==
    IF i > Len(players) THEN <<>>
    ELSE (IF keep(i) THEN <<i>> ELSE <<>>) \o FilterSeats(players, keep, i + 1)

\* seq.indexOf(x): the 0-based position of x, -1 when absent.
SeqIndexOf(seq, x) ==
    IF \E i \in DOMAIN seq : seq[i] = x
    THEN SetMin({i \in DOMAIN seq : seq[i] = x}) - 1
    ELSE -1

\* players.findIndex(test): 0-based, -1 when no player passes.
findIndex(players, test(_)) ==
    IF \E i \in DOMAIN players : test(players[i])
    THEN SetMin({i \in DOMAIN players : test(players[i])}) - 1
    ELSE -1

\* nextActive(startIdx): the seat (1-based) of the next player after the 0-based
\* index startIdx who has not folded; 0 stands for "undefined".
nextActive(players, startIdx) ==
    LET n == Len(players)
        hits == {i \in 1..n : ~players[((startIdx + i) % n) + 1].folded}
    IN  IF hits # {} THEN ((startIdx + SetMin(hits)) % n) + 1
        ELSE IF startIdx >= 0 THEN startIdx + 1 ELSE 0

IsBigBlind(p) == p.bigBlind
IsDealer(p) == p.dealer

\* positionFactor, as a real.
PositionFactor(c, seat) ==
    LET players == c.players
        active == FilterSeats(players, LAMBDA i : ~players[i].folded, 1)
        seatIdx == SeqIndexOf(active, seat)
        firstToAct == IF c.currentPhaseIndex = 0
                      THEN nextActive(players, findIndex(players, IsBigBlind))
                      ELSE nextActive(players, findIndex(players, IsDealer))
        refIdx == SeqIndexOf(active, firstToAct)
        pos == (seatIdx - refIdx + Len(active)) % Len(active)
    IN  IF Len(active) > 1 THEN (pos * Unit) \div (Len(active) - 1) ELSE 0

\* The adjustments of raiseThreshold and aggressiveness by the opponent model,
\* and bluffChance (a fraction), for the opponents' seats opp.
OpponentModel(players, opp, tr36) ==
    IF Len(opp) = 0
    THEN [thr |-> 0, agg |-> 0, bluffChance |-> Frac(0, 1), weight |-> 0]
    ELSE
      LET opponents == [i \in 1..Len(opp) |-> players[opp[i]]]
          avgVPIP == FracAvg(VpipRate, opponents)
          avgAgg == FracAvg(AggRate, opponents)
          foldRate == avgFoldRate(opponents)
          avgHands == FracAvg(HandsSeen, opponents)
          weight == Weight(avgHands)
          capped == FracMin(Frac(3, 10), foldRate)
          bluff == Frac(capped.n * (weight \div Milli(10)) * (2 * TextureUnit - tr36),
                        capped.d * 100 * (2 * TextureUnit))
          thr1 == IF FracLt(avgVPIP, Frac(1, 4)) THEN -(weight \div 2)
                  ELSE IF FracLt(Frac(1, 2), avgVPIP) THEN weight \div 2
                  ELSE 0
          agg1 == IF FracLt(avgVPIP, Frac(1, 4)) THEN weight \div 10
                  ELSE IF FracLt(Frac(1, 2), avgVPIP) THEN -(weight \div 10)
                  ELSE 0
          agg2 == IF FracLt(Frac(3, 2), avgAgg) THEN -(weight \div 10)
                  ELSE IF FracLt(avgAgg, Frac(7, 10)) THEN weight \div 10
                  ELSE 0
      IN  [thr |-> thr1, agg |-> agg1 + agg2, bluffChance |-> bluff, weight |-> weight]

\* Everything chooseBotAction computes before "let decision": a record of the
\* inputs it reads and the values it derives. c is the context, seat the
\* acting player's seat in c.players, board the community cards.
Env(c, seat, board) ==
    LET player == c.players[seat]
        players == c.players
        needToCall == c.currentBet - player.roundBet
        active == FilterSeats(players, LAMBDA i : ~players[i].folded, 1)
        activeOpponents == Len(active) - 1
        positionFactor == PositionFactor(c, seat)
        preflop == Len(board) = 0
        hole == player.cards
        strength2 == IF preflop THEN preflopHandScore(hole[1], hole[2])
                     ELSE 2 * HandSolve(hole \o board).rank
        analysed == ~preflop /\ Len(board) >= 3
        ctxInfo == IF analysed THEN analyzeHandContext(hole, board)
                   ELSE [isTopPair |-> FALSE, isOverPair |-> FALSE]
        draws == IF analysed THEN analyzeDrawPotential(hole, board)
                 ELSE [flushDraw |-> FALSE, straightDraw |-> FALSE, outs |-> 0]
        topPair == ctxInfo.isTopPair
        overPair == ctxInfo.isOverPair
        drawChance == draws.flushDraw \/ draws.straightDraw
        tr36 == IF analysed THEN evaluateBoardTexture(board) ELSE 0
        few == activeOpponents < OPPONENT_THRESHOLD
        oppAggAdj == IF few THEN (OPPONENT_THRESHOLD - activeOpponents) * AGG_FACTOR ELSE 0
        thresholdAdj == IF few THEN (OPPONENT_THRESHOLD - activeOpponents) * THRESHOLD_FACTOR ELSE 0
        agg0 == (IF preflop THEN Milli(800) + ScaleMilli(positionFactor, 400)
                 ELSE Unit + ScaleMilli(positionFactor, 600)) + oppAggAdj
        thr0 == IF preflop THEN 8 * Unit - 2 * positionFactor
                ELSE Max(2 * Unit, 4 * Unit - 2 * positionFactor)
        thr1 == Max(Unit, thr0 - thresholdAdj)
        agg2 == agg0 + (IF preflop THEN 0
                        ELSE (IF overPair THEN Milli(200) ELSE IF topPair THEN Milli(100) ELSE 0)
                             + (IF drawChance THEN Milli(50) ELSE 0))
        thr2 == thr1 - (IF preflop THEN 0
                        ELSE (IF overPair THEN Milli(500) ELSE IF topPair THEN Milli(300) ELSE 0)
                             + (IF drawChance THEN Milli(250) ELSE 0))
        agg3 == IF preflop THEN agg2 ELSE TimesOneMinusHalfTexture(agg2, tr36)
        thr3 == IF preflop THEN thr2 ELSE Min(10 * Unit, thr2 + TextureMilli(tr36, 1000))
        opp == FilterSeats(players, LAMBDA i : i # seat, 1)
        om == OpponentModel(players, opp, tr36)
    IN  [chips |-> player.chips,
         currentBet |-> c.currentBet,
         lastRaise |-> c.lastRaise,
         bigBlind |-> c.bigBlind,
         needToCall |-> needToCall,
         potAndCall |-> c.pot + needToCall,
         canRaise |-> c.raisesThisRound < MAX_RAISES_PER_ROUND /\ player.chips > c.bigBlind,
         activeOpponents |-> activeOpponents,
         positionFactor |-> positionFactor,
         preflop |-> preflop,
         strength2 |-> strength2,
         textureRisk |-> tr36,
         aggressiveness |-> agg3 + om.agg,
         raiseThreshold |-> thr3 + om.thr,
         bluffChance |-> om.bluffChance,
         weight |-> om.weight,
         facingAllIn |-> \E i \in DOMAIN opp : players[opp[i]].allIn]

\* strengthRatio >= m / 1000 and strengthRatio > m / 1000 (strengthRatio = strength / 10)
StrengthRatioGeq(e, m) == e.strength2 * 50 >= m
StrengthRatioGt(e, m) == e.strength2 * 50 > m

\* spr = player.chips / Math.max(1, pot + needToCall), compared with a / b
SprLeq(e, a, b) == e.chips * b <= a * Max(1, e.potAndCall)
SprLt(e, a, b) == e.chips * b < a * Max(1, e.potAndCall)
SprGt(e, a, b) == e.chips * b > a * Max(1, e.potAndCall)

\* stackRatio = needToCall / player.chips <= a / b. With no chips the quotient
\* is Infinity (needToCall > 0), -Infinity (< 0) or NaN (= 0, never <= anything).
StackRatioLeq(e, a, b) ==
    IF e.chips = 0 THEN e.needToCall < 0
    ELSE e.needToCall * b <= a * e.chips

\* strength >= raiseThreshold and Math.abs(strength - raiseThreshold) <= STRENGTH_TIE_DELTA
StrengthGeqThreshold_never(e) == FALSE
StrengthGeqThreshold(e) == e.strength2 * (Unit \div 2) >= e.raiseThreshold
StrengthTie(e) == Abs(e.strength2 * (Unit \div 2) - e.raiseThreshold) <= STRENGTH_TIE_DELTA

\* (strengthRatio * aggressiveness - potOdds) * 20 * Unit * (pot + needToCall),
\* where potOdds = needToCall / (pot + needToCall); only read with needToCall > 0.
OddsMargin(e) == e.strength2 * e.aggressiveness * e.potAndCall - 20 * Unit * e.needToCall
OddsOk(e) == e.potAndCall > 0 /\ OddsMargin(e) >= 0
\* Math.abs(strengthRatio * aggressiveness - potOdds) <= ODDS_TIE_DELTA (0.02)
OddsTie(e) == Abs(OddsMargin(e)) <= 20 * ODDS_TIE_DELTA * e.potAndCall

(***************************************************************************)
(* Bet sizing. r is the value Math.random() returns inside the function.   *)
(***************************************************************************)
\* roundTo10(Math.min(player.chips, (pot + needToCall) * factor))
SizedAmount(e, factor) == roundTo10(Min(e.chips * Unit, e.potAndCall * factor))

valueBetSize(e, r) ==
    LET base0 ==
          IF e.preflop
          THEN Milli(550)
               + (IF StrengthRatioGeq(e, 900) THEN Milli(150) ELSE 0)
               + e.activeOpponents * Milli(40)
               + ScaleMilli(Unit - e.positionFactor, 50)
               + (IF e.positionFactor < Milli(300) /\ StrengthRatioGeq(e, 800)
                  THEN Milli(100) ELSE 0)
          ELSE (IF e.textureRisk * 1000 > 600 * TextureUnit THEN Milli(700)
                ELSE IF e.textureRisk * 1000 > 300 * TextureUnit THEN Milli(600)
                ELSE Milli(450))
               + (IF StrengthRatioGt(e, 950) THEN Milli(100) ELSE 0)
               + e.activeOpponents * Milli(30)
               + ScaleMilli(Unit - e.positionFactor, 50)
        base == base0 + (IF SprLt(e, 2, 1) THEN Milli(100)
                         ELSE IF SprLt(e, 4, 1) THEN Milli(50)
                         ELSE IF SprGt(e, 6, 1) THEN -Milli(50)
                         ELSE 0)
        rand == Jitter(r, 200, 100)
        factor == Min(Unit, Max(Milli(350), base + rand))
    IN  SizedAmount(e, factor)

bluffBetSize(e, r) ==
    LET base == Milli(250) + TextureMilli(e.textureRisk, 50)
                + e.activeOpponents * Milli(20)
                + ScaleMilli(Unit - e.positionFactor, 30)
                + (IF SprLt(e, 3, 1) THEN Milli(50)
                   ELSE IF SprGt(e, 5, 1) THEN -Milli(50)
                   ELSE 0)
        rand == Jitter(r, 80, 40)
        factor == Min(Milli(450), Max(Milli(200), base + rand))
    IN  SizedAmount(e, factor)

protectionBetSize(e, r) ==
    LET base == Milli(450) + TextureMilli(e.textureRisk, 250)
                + e.activeOpponents * Milli(30)
                + ScaleMilli(Unit - e.positionFactor, 40)
                + (IF SprLt(e, 3, 1) THEN Milli(100)
                   ELSE IF SprGt(e, 5, 1) THEN -Milli(50)
                   ELSE 0)
        rand == Jitter(r, 100, 50)
        factor == Min(Milli(800), Max(Milli(350), base + rand))
    IN  SizedAmount(e, factor)

overBetSize(e, r) ==
    LET base == Milli(1200) - TextureMilli(e.textureRisk, 100)
                + e.activeOpponents * Milli(50)
                + (IF SprLt(e, 2, 1) THEN Milli(300) ELSE 0)
        rand == Jitter(r, 150, 50)
        factor == Max(Milli(1100), Min(Milli(1500), base + rand))
    IN  SizedAmount(e, factor)

(***************************************************************************)
(* chooseBotAction: the decision. The calls of Math.random() are answered, *)
(* in call order, by the sequence rnd. A run is the record                 *)
(*   d       the decision so far ("none" before the first branch)          *)
(*   k       how many values of rnd have been read                         *)
(*   short   whether the code asked for more values than rnd holds         *)
(*   isBluff the code's isBluff                                            *)
(*   path    the branches taken (a history, for the claims)                *)
(***************************************************************************)
None == [action |-> "none"]
Fold == [action |-> "fold"]
Check == [action |-> "check"]
Call(a) == [action |-> "call", amount |-> a]
Raise(a) == [action |-> "raise", amount |-> a]

StartRun == [d |-> None, k |-> 0, short |-> FALSE, isBluff |-> FALSE, path |-> {}]

\* Math.random(): the value read and the run after reading it.
Random(rnd, st) ==
    [v  |-> IF st.k < Len(rnd) THEN rnd[st.k + 1] ELSE 0,
     st |-> [st EXCEPT !.k = @ + 1, !.short = @ \/ st.k >= Len(rnd)]]

Decide(st, d, tag) == [st EXCEPT !.d = d, !.path = @ \cup {tag}]

\* { action: "call", amount: Math.min(player.chips, needToCall) }
CallOwed(e) == Call(Min(e.chips, e.needToCall))

\* The minimum a raise is lifted to in the raise branches: currentBet + lastRaise.
RaiseFloor(e) == e.currentBet + e.lastRaise

\* "Automatic shove logic when stacks are shallow"
ShoveCondition(e) ==
    \/ SprLeq(e, 12, 10) /\ StrengthRatioGeq(e, 650)
    \/ e.preflop /\ e.chips <= e.bigBlind * 10 /\ StrengthRatioGeq(e, 750)

\* Variant of ShoveStage: the shove branch is left out.
ShoveStage_off(e, st) == st

ShoveStage(e, st) ==
    IF ShoveCondition(e) THEN Decide(st, Raise(e.chips), "shove") ELSE st

\* stackRatio <= (preflop ? 0.5 : 0.7)
StackRatioCallable(e) == IF e.preflop THEN StackRatioLeq(e, 1, 2) ELSE StackRatioLeq(e, 7, 10)

\* if (!decision) { ... }: the threshold branches with their tie-breakers.
ThresholdStage(e, rnd, st) ==
    IF st.d # None THEN st
    ELSE IF e.needToCall <= 0 THEN
      IF e.canRaise /\ StrengthGeqThreshold(e) THEN
        LET a == Random(rnd, st)
            raiseAmt == Max(RaiseFloor(e), valueBetSize(e, a.v))
        IN  IF StrengthTie(e)
            THEN LET b == Random(rnd, a.st)
                 IN  IF RandomLt(b.v, 500) THEN Decide(b.st, Check, "tieCheck")
                     ELSE Decide(b.st, Raise(raiseAmt), "valueRaise")
            ELSE Decide(a.st, Raise(raiseAmt), "valueRaise")
      ELSE Decide(st, Check, "check")
    ELSE IF e.canRaise /\ StrengthGeqThreshold(e) /\ StackRatioLeq(e, 1, 3) THEN
      LET a == Random(rnd, st)
          raiseAmt == Max(RaiseFloor(e), protectionBetSize(e, a.v))
      IN  IF StrengthTie(e)
          THEN LET alt == IF OddsOk(e) /\ StackRatioCallable(e) THEN CallOwed(e) ELSE Fold
                   b == Random(rnd, a.st)
               IN  IF RandomLt(b.v, 500) THEN Decide(b.st, Raise(raiseAmt), "protectionRaise")
                   ELSE Decide(b.st, alt, "tieAlternative")
          ELSE Decide(a.st, Raise(raiseAmt), "protectionRaise")
    ELSE IF OddsOk(e) /\ StackRatioCallable(e) THEN
      IF OddsTie(e)
      THEN LET b == Random(rnd, st)
           IN  IF RandomLt(b.v, 500) THEN Decide(b.st, CallOwed(e), "call")
               ELSE Decide(b.st, Fold, "tieFold")
      ELSE Decide(st, CallOwed(e), "call")
    ELSE Decide(st, Fold, "fold")

\* Variant of AllInDefenseStage: a fold stays a fold.
AllInDefenseStage_off(e, st) == st

\* "If facing any all-in, do not fold always"
AllInDefenseStage(e, st) ==
    IF /\ st.d.action = "fold"
       /\ e.facingAllIn
       /\ StrengthRatioGeq(e, IF e.preflop THEN ALLIN_HAND_PREFLOP ELSE ALLIN_HAND_POSTFLOP)
    THEN Decide(st, CallOwed(e), "allInDefense")
    ELSE st

\* Bluff injection.
BluffStage(e, rnd, st) ==
    IF /\ e.bluffChance.n > 0
       /\ e.canRaise
       /\ st.d.action \in {"check", "fold"}
       /\ ~e.facingAllIn
    THEN LET a == Random(rnd, st)
         IN  IF FracLt(Frac(a.v, RandomUnit), e.bluffChance)
             THEN LET b == Random(rnd, a.st)
                      bluffAmt == Max(RaiseFloor(e), bluffBetSize(e, b.v))
                  IN  [Decide(b.st, Raise(bluffAmt), "bluff") EXCEPT !.isBluff = TRUE]
             ELSE a.st
    ELSE st

\* Overbet upsizing of a raise.
OverbetStage(e, rnd, st) ==
    IF /\ ~e.preflop
       /\ st.d.action = "raise"
       /\ StrengthRatioGeq(e, 950)
       /\ SprLeq(e, 2, 1)
    THEN LET a == Random(rnd, st)
         IN  IF RandomLt(a.v, 300)
             THEN LET b == Random(rnd, a.st)
                  IN  Decide(b.st, Raise(Max(st.d.amount, overBetSize(e, b.v))), "overbet")
             ELSE a.st
    ELSE st

\* Slow play: a raise with a near-nut hand becomes a check.
SlowPlayStage(e, rnd, st) ==
    IF ~e.preflop /\ StrengthRatioGeq(e, 900) /\ st.d.action = "raise"
    THEN LET a == Random(rnd, st)
         IN  IF RandomLt(a.v, 300) THEN Decide(a.st, Check, "slowPlay") ELSE a.st
    ELSE st

\* Protect bet: a check with nothing bet yet becomes a bet.
ProtectBetStage(e, rnd, st) ==
    IF ~e.preflop /\ e.currentBet = 0 /\ st.d.action = "check"
    THEN LET a == Random(rnd, st)
         IN  IF RandomLt(a.v, 300)
             THEN LET b == Random(rnd, a.st)
                      betAmt == protectionBetSize(e, b.v)
                  IN  Decide(b.st, Raise(Max(e.lastRaise, betAmt)), "protectBet")
             ELSE a.st
    ELSE st

\* Variant of MinRaiseStage: the final check is left out.
MinRaiseStage_skipped(e, st) == st

\* Variant of MinRaiseStage: the downgrade is always to a call.
MinRaiseStage_alwaysCall(e, st) ==
    IF st.d.action = "raise" /\ st.d.amount < e.needToCall + e.lastRaise
    THEN Decide(st, CallOwed(e), "minRaiseDowngrade")
    ELSE st

\* "Ensure raises meet the minimum requirements"
MinRaiseStage(e, st) ==
    IF st.d.action = "raise" /\ st.d.amount < e.needToCall + e.lastRaise
    THEN Decide(st, IF e.needToCall > 0 THEN CallOwed(e) ELSE Check, "minRaiseDowngrade")
    ELSE st

\* The run of chooseBotAction on the derived values e with the random values rnd.
DecisionRun(e, rnd) ==
    MinRaiseStage(e,
      ProtectBetStage(e, rnd,
        SlowPlayStage(e, rnd,
          OverbetStage(e, rnd,
            BluffStage(e, rnd,
              AllInDefenseStage(e,
                ThresholdStage(e, rnd,
                  ShoveStage(e, StartRun))))))))

\* chooseBotAction(player, ctx) with Math.random() answering from rnd.
chooseBotAction(c, seat, board, rnd) == DecisionRun(Env(c, seat, board), rnd)

(***************************************************************************)
(* One call of chooseBotAction: the players, contexts and boards it is     *)
(* called on, and the call.                                                *)
(***************************************************************************)
\* Opponent statistics: hands, folds, vpip, calls, aggressiveActs.
Stats(h, f, v, c, a) == [hands |-> h, folds |-> f, vpip |-> v, calls |-> c, aggressiveActs |-> a]
FreshStats == Stats(0, 0, 0, 0, 0)
TightStats == Stats(30, 20, 5, 20, 3)
LooseStats == Stats(30, 3, 25, 5, 20)
\* The same tendencies seen over fewer than MIN_HANDS_FOR_WEIGHT hands.
EarlyTightStats == Stats(8, 6, 1, 5, 0)
EarlyLooseStats == Stats(8, 0, 7, 0, 6)

\* Hole cards and boards.
Deals ==
    { [hole |-> <<Card("A", "C"), Card("A", "D")>>, board |-> <<>>],
      [hole |-> <<Card("9", "C"), Card("8", "D")>>, board |-> <<>>],
      [hole |-> <<Card("7", "C"), Card("2", "D")>>, board |-> <<>>],
      [hole |-> <<Card("6", "H"), Card("5", "H")>>,
       board |-> <<Card("7", "H"), Card("8", "H"), Card("9", "H")>>],
      [hole |-> <<Card("A", "H"), Card("K", "C")>>,
       board |-> <<Card("2", "C"), Card("7", "D"), Card("K", "S")>>],
      [hole |-> <<Card("A", "C"), Card("A", "D")>>,
       board |-> <<Card("7", "H"), Card("8", "H"), Card("9", "D"), Card("2", "C")>>],
      [hole |-> <<Card("A", "H"), Card("K", "H")>>,
       board |-> <<Card("2", "H"), Card("7", "H"), Card("9", "H"), Card("Q", "D"),
                   Card("3", "C")>>],
      [hole |-> <<Card("A", "H"), Card("K", "H")>>,
       board |-> <<Card("2", "H"), Card("7", "H"), Card("9", "D")>>] }

ChipStacks == {0, 30, 150, 1000}
Pots == {30, 200}
LastRaises == {20, 40}
RaiseCounts == {0, MAX_RAISES_PER_ROUND}
\* <<currentBet, the acting player's roundBet>>; nothing is bet yet only postflop.
Bets(board) == IF Len(board) = 0 THEN {<<20, 20>>, <<40, 20>>, <<200, 0>>}
               ELSE {<<0, 0>>, <<40, 0>>, <<200, 0>>}

\* An opponent: in the hand, folded or all-in, with the statistics seen so far.
Opponent(status, stats) ==
    [chips |-> IF status = "allIn" THEN 0 ELSE 500, roundBet |-> 0,
     folded |-> status = "folded", allIn |-> status = "allIn",
     bigBlind |-> FALSE, dealer |-> FALSE, cards |-> <<>>, stats |-> stats]

\* The acting player.
Actor(chips, roundBet, hole) ==
    [chips |-> chips, roundBet |-> roundBet, folded |-> FALSE, allIn |-> FALSE,
     bigBlind |-> FALSE, dealer |-> FALSE, cards |-> hole, stats |-> FreshStats]

\* The other seats of the table: one opponent, or two.
OpponentSeats ==
    { <<Opponent(st, ps)>> : st \in {"in", "folded", "allIn"},
                             ps \in {FreshStats, TightStats, LooseStats,
                                     EarlyTightStats, EarlyLooseStats} }
    \cup
    { <<Opponent(st1, ps1), Opponent(st2, ps2)>> :
        st1 \in {"in", "allIn"}, ps1 \in {TightStats, EarlyTightStats},
        st2 \in {"in", "folded"}, ps2 \in {FreshStats, LooseStats} }

\* The table: the actor in seat 1, the button on seat d, the big blind two
\* seats after the button (heads-up: on the other seat).
Seated(actor, others, d) ==
    LET ps == <<actor>> \o others
        n == Len(ps)
        bb == IF n = 2 THEN (d % n) + 1 ELSE ((d + 1) % n) + 1
    IN  [i \in 1..n |-> [ps[i] EXCEPT !.dealer = (i = d), !.bigBlind = (i = bb)]]

PhaseIndex(board) == IF Len(board) = 0 THEN 0 ELSE Len(board) - 2

InitBot ==
    /\ \E deal \in Deals, chips \in ChipStacks, pot \in Pots, lr \in LastRaises,
          rc \in RaiseCounts, others \in OpponentSeats :
         \E bet \in Bets(deal.board), d \in 1..(Len(others) + 1) :
           /\ ctx = [currentBet |-> bet[1], pot |-> pot, smallBlind |-> 10, bigBlind |-> 20,
                     raisesThisRound |-> rc, currentPhaseIndex |-> PhaseIndex(deal.board),
                     players |-> Seated(Actor(chips, bet[2], deal.hole), others, d),
                     lastRaise |-> lr]
           /\ communityCards = deal.board
    /\ playerSeat = 1
    /\ randomValues = <<>>
    /\ decision = None
    /\ isBluff = FALSE
    /\ path = {}
    /\ locals = [preflop |-> TRUE]
    /\ pc = "ready"
    \* the action queue is empty and idle
    /\ botActionQueue = <<>>
    /\ processingBotActions = FALSE
    /\ timers = <<>>
    /\ now = 0
    /\ enqueued = <<>>
    /\ executed = <<>>
    /\ stalled = FALSE
    \* no evaluator function is called on its own
    /\ fnName = "none"
    /\ fnArgs = <<>>
    /\ fnResult = [done |-> FALSE]
    \* no table is synchronised and no hole-cards view is open
    /\ kvRecord = Null
    /\ postHandlers = <<>>
    /\ storedLog = <<>>
    /\ visibilityState = "hidden"
    /\ isPolling = FALSE
    /\ pollTimeoutId = NullId
    /\ pollTimers = {}
    /\ pollCalls = <<>>
    /\ lastVersion = 0
    /\ seenState = 0

\* The values Math.random() may return, in units of 1 / RandomUnit.
RandomDraws == {0, 20, 39}

RECURSIVE Runs(_, _)
\* Every run of chooseBotAction on e, each with exactly the random values it read.
Runs(e, r) ==
    LET st == DecisionRun(e, r)
    IN  IF st.short THEN UNION {Runs(e, Append(r, v)) : v \in RandomDraws}
        ELSE {[rnd |-> r, st |-> st]}

\* chooseBotAction(player, ctx) is called and returns.
ChooseBotAction ==
    /\ pc = "ready"
    /\ \E e \in {Env(ctx, playerSeat, communityCards)} :
         \E run \in Runs(e, <<>>) :
           /\ locals' = e
           /\ randomValues' = run.rnd
           /\ decision' = run.st.d
           /\ isBluff' = run.st.isBluff
           /\ path' = run.st.path
    /\ pc' = "done"
    /\ UNCHANGED <<ctx, playerSeat, communityCards, qvars, fvars, svars>>

NextBot == ChooseBotAction

SpecBot == InitBot /\ [][NextBot]_vars

(***************************************************************************)
(* The evaluator functions called on their own: preflopHandScore on every  *)
(* two cards of the deck, analyzeDrawPotential on every set of ranks that  *)
(* five to seven cards can show, evaluateBoardTexture on boards of zero to *)
(* five cards.                                                             *)
(***************************************************************************)
SuitSeq == <<"C", "D", "H", "S">>

\* The 52 cards, numbered 1..52.
DeckCard(i) == Card(order[((i - 1) % 13) + 1], SuitSeq[((i - 1) \div 13) + 1])

RECURSIVE SortedSeq(_)
\* The elements of a set of numbers in increasing order.
SortedSeq(S) == IF S = {} THEN <<>> ELSE <<SetMin(S)>> \o SortedSeq(S \ {SetMin(S)})

\* Two different hole cards of the first n cards, in either order.
HoleInputs(n) ==
    {<<DeckCard(t[1]), DeckCard(t[2])>> : t \in {u \in (1..n) \X (1..n) : u[1] # u[2]}}

\* Five to seven cards showing exactly the ranks order[k], k \in S: one card
\* per rank, the suits taken in turn, and with fewer than five ranks further
\* cards of the lowest rank. The first two cards are the hole cards.
CardsOfRanks(S) ==
    LET ks == SortedSeq(S)
        one == [k \in 1..Len(ks) |-> Card(order[ks[k]], SuitSeq[((k - 1) % 4) + 1])]
        low == order[ks[1]]
    IN  one \o (IF Len(ks) <= 4 THEN <<Card(low, "S")>> ELSE <<>>)
            \o (IF Len(ks) <= 3 THEN <<Card(low, "H")>> ELSE <<>>)

\* The card sets of three to seven of the first n ranks.
DrawInputs(n) == {CardsOfRanks(S) : S \in {T \in SUBSET (1..n) : Cardinality(T) \in 3..7}}

\* The cards of the boards of four and five cards: 2 3 4 5 9 K A in the
\* first two suits.
SmallDeck(n) == {i \in 1..(n \div 2) : ((i - 1) % 13) + 1 \in {1, 2, 3, 4, 8, 12, 13}}

CardsOfNumbers(T) == [k \in 1..Cardinality(T) |-> DeckCard(SortedSeq(T)[k])]

\* Boards of the first n cards: none, one or two cards; every flop; turns
\* and rivers of SmallDeck.
BoardInputs(n) ==
    {<<>>}
    \cup {<<DeckCard(i)>> : i \in 1..n}
    \cup {<<DeckCard(t[1]), DeckCard(t[2])>> : t \in {u \in (1..n) \X (1..n) : u[1] < u[2]}}
    \cup {<<DeckCard(t[1]), DeckCard(t[2]), DeckCard(t[3])>> :
            t \in {u \in (1..n) \X (1..n) \X (1..n) : u[1] < u[2] /\ u[2] < u[3]}}
    \cup {CardsOfNumbers(T) : T \in {U \in SUBSET SmallDeck(n) : Cardinality(U) \in 4..5}}

\* The calls on the deck of `ranks` ranks in every suit.
EvaluatorCalls(ranks) ==
    {[name |-> "preflopHandScore", args |-> a] : a \in HoleInputs(ranks * Len(SuitSeq))}
    \cup {[name |-> "analyzeDrawPotential", args |-> a] : a \in DrawInputs(ranks)}
    \cup {[name |-> "evaluateBoardTexture", args |-> a] : a \in BoardInputs(ranks * Len(SuitSeq))}

InitEvaluators ==
    /\ \E call \in EvaluatorCalls(Len(order)) : fnName = call.name /\ fnArgs = call.args
    /\ fnResult = [done |-> FALSE]
    \* no decision is being taken
    /\ ctx = [players |-> <<>>]
    /\ playerSeat = 0
    /\ communityCards = <<>>
    /\ randomValues = <<>>
    /\ decision = [action |-> "none"]
    /\ isBluff = FALSE
    /\ path = {}
    /\ locals = [preflop |-> TRUE]
    /\ pc = "idle"
    \* the action queue is empty and idle
    /\ botActionQueue = <<>>
    /\ processingBotActions = FALSE
    /\ timers = <<>>
    /\ now = 0
    /\ enqueued = <<>>
    /\ executed = <<>>
    /\ stalled = FALSE
    \* no table is synchronised and no hole-cards view is open
    /\ kvRecord = Null
    /\ postHandlers = <<>>
    /\ storedLog = <<>>
    /\ visibilityState = "hidden"
    /\ isPolling = FALSE
    /\ pollTimeoutId = NullId
    /\ pollTimers = {}
    /\ pollCalls = <<>>
    /\ lastVersion = 0
    /\ seenState = 0

\* preflopHandScore(cardA, cardB) is called and returns (the score in halves).
PreflopHandScore ==
    /\ fnName = "preflopHandScore"
    /\ ~fnResult.done
    /\ fnResult' = [done |-> TRUE, value |-> preflopHandScore(fnArgs[1], fnArgs[2])]
    /\ UNCHANGED <<fnName, fnArgs, qvars, bvars, svars>>

\* analyzeDrawPotential(hole, board) is called and returns.
AnalyzeDrawPotential ==
    /\ fnName = "analyzeDrawPotential"
    /\ ~fnResult.done
    /\ fnResult' = [done |-> TRUE,
                    value |-> analyzeDrawPotential(SubSeq(fnArgs, 1, 2),
                                                   SubSeq(fnArgs, 3, Len(fnArgs)))]
    /\ UNCHANGED <<fnName, fnArgs, qvars, bvars, svars>>

\* evaluateBoardTexture(board) is called and returns (the risk in 36ths).
EvaluateBoardTexture ==
    /\ fnName = "evaluateBoardTexture"
    /\ ~fnResult.done
    /\ fnResult' = [done |-> TRUE, value |-> evaluateBoardTexture(fnArgs)]
    /\ UNCHANGED <<fnName, fnArgs, qvars, bvars, svars>>

NextEvaluators == PreflopHandScore \/ AnalyzeDrawPotential \/ EvaluateBoardTexture

SpecEvaluators == InitEvaluators /\ [][NextEvaluators]_vars

(***************************************************************************)
(* The four sizing functions called on their own. They are closures of     *)
(* chooseBotAction: locals holds the values they read (player.chips,       *)
(* pot + needToCall, preflop, strength, activeOpponents, positionFactor,   *)
(* textureRisk), fnArgs the value Math.random() returns inside the call.   *)
(***************************************************************************)
\* Stacks, pots and amounts owed: non-negative integers, multiples of 10 or not.
SizingChips == {0, 4, 5, 15, 30, 95, 200}
SizingPots == {0, 10, 35, 100, 300}
SizingCalls == {0, 20}
\* Math.random(): the least value, the middle and the greatest below 1.
SizingRandoms == {0, RandomUnit \div 2, RandomUnit - 1}

\* The locals the sizing functions read, for a stack, a pot and an amount owed.
SizingEnvs ==
    {[chips |-> chips,
      needToCall |-> needToCall,
      potAndCall |-> pot + needToCall,
      preflop |-> preflop,
      strength2 |-> strength2,
      activeOpponents |-> activeOpponents,
      positionFactor |-> positionFactor,
      textureRisk |-> textureRisk] :
        chips \in SizingChips, pot \in SizingPots, needToCall \in SizingCalls,
        preflop \in BOOLEAN, strength2 \in {4, 19}, activeOpponents \in {1, 3},
        positionFactor \in {0, Unit}, textureRisk \in {0, TextureUnit}}

SizingNames == {"valueBetSize", "bluffBetSize", "protectionBetSize", "overBetSize"}

InitSizing ==
    /\ fnName \in SizingNames
    /\ \E r \in SizingRandoms : fnArgs = <<r>>
    /\ fnResult = [done |-> FALSE]
    /\ locals \in SizingEnvs
    \* the decision itself is not modelled here
    /\ ctx = [players |-> <<>>]
    /\ playerSeat = 0
    /\ communityCards = <<>>
    /\ randomValues = <<>>
    /\ decision = [action |-> "none"]
    /\ isBluff = FALSE
    /\ path = {}
    /\ pc = "idle"
    \* the action queue is empty and idle
    /\ botActionQueue = <<>>
    /\ processingBotActions = FALSE
    /\ timers = <<>>
    /\ now = 0
    /\ enqueued = <<>>
    /\ executed = <<>>
    /\ stalled = FALSE
    \* no table is synchronised and no hole-cards view is open
    /\ kvRecord = Null
    /\ postHandlers = <<>>
    /\ storedLog = <<>>
    /\ visibilityState = "hidden"
    /\ isPolling = FALSE
    /\ pollTimeoutId = NullId
    /\ pollTimers = {}
    /\ pollCalls = <<>>
    /\ lastVersion = 0
    /\ seenState = 0

\* valueBetSize() is called and returns.
ValueBetSize ==
    /\ fnName = "valueBetSize"
    /\ ~fnResult.done
    /\ fnResult' = [done |-> TRUE, value |-> valueBetSize(locals, fnArgs[1])]
    /\ UNCHANGED <<fnName, fnArgs, qvars, bvars, svars>>

\* bluffBetSize() is called and returns.
BluffBetSize ==
    /\ fnName = "bluffBetSize"
    /\ ~fnResult.done
    /\ fnResult' = [done |-> TRUE, value |-> bluffBetSize(locals, fnArgs[1])]
    /\ UNCHANGED <<fnName, fnArgs, qvars, bvars, svars>>

\* protectionBetSize() is called and returns.
ProtectionBetSize ==
    /\ fnName = "protectionBetSize"
    /\ ~fnResult.done
    /\ fnResult' = [done |-> TRUE, value |-> protectionBetSize(locals, fnArgs[1])]
    /\ UNCHANGED <<fnName, fnArgs, qvars, bvars, svars>>

\* overBetSize() is called and returns.
OverBetSize ==
    /\ fnName = "overBetSize"
    /\ ~fnResult.done
    /\ fnResult' = [done |-> TRUE, value |-> overBetSize(locals, fnArgs[1])]
    /\ UNCHANGED <<fnName, fnArgs, qvars, bvars, svars>>

NextSizing == ValueBetSize \/ BluffBetSize \/ ProtectionBetSize \/ OverBetSize

SpecSizing == InitSizing /\ [][NextSizing]_vars

(***************************************************************************)
(* Backend sync. api/main keeps one record per table in Deno KV; the table *)
(* posts its state (POST /state) and the hole-cards view (singleView.js)   *)
(* polls it (GET /state?sinceVersion=). One tableId is modelled. A handler *)
(* is suspended at each await; kv.get and kv.set each take effect at one   *)
(* instant. updatedAt is stored but never read, and is left out.           *)
(***************************************************************************)
\* Number of POST /state requests in a run.
MaxPosts == 2

\* The request bodies the n-th POST may carry: the table's n-th state with or
\* without notifications, or a body without state.
PostPayloads(n) ==
    {[hasState |-> TRUE, state |-> n, hasNotifications |-> hn, notifications |-> <<n>>] :
        hn \in BOOLEAN}
    \cup {[hasState |-> FALSE, state |-> 0, hasNotifications |-> FALSE, notifications |-> <<>>]}

\* The record saveState builds from the record it read and the payload.
saveState(current, payload) ==
    [state |-> payload.state,
     notifications |-> IF payload.hasNotifications THEN payload.notifications
                       ELSE IF current # Null THEN current.notifications
                       ELSE <<>>,
     version |-> (IF current # Null THEN current.version ELSE 0) + 1]

\* handleGet's response for the record it read.
handleGet(record, sinceVersion) ==
    IF record = Null THEN [status |-> 404, body |-> Null]
    ELSE IF record.version <= sinceVersion THEN [status |-> 204, body |-> Null]
    ELSE [status |-> 200, body |-> record]

\* The hole-cards view's state.
View ==
    [visibilityState |-> visibilityState,
     isPolling |-> isPolling,
     pollTimeoutId |-> pollTimeoutId,
     pollTimers |-> pollTimers,
     pollCalls |-> pollCalls,
     lastVersion |-> lastVersion,
     seenState |-> seenState]

\* The id setTimeout returns: one no outstanding timer and no variable holds.
FreshTimerId(v) ==
    LET used == v.pollTimers \cup {v.pollTimeoutId}
    IN  CHOOSE id \in 1..(Cardinality(used) + 1) :
          id \notin used /\ \A other \in 1..(id - 1) : other \in used

\* clearTimeout(id): variant that leaves the timer outstanding.
clearTimeout_ignored(timerIds, id) == timerIds
\* clearTimeout(id)
clearTimeout(timerIds, id) == timerIds \ {id}

\* pollState() up to its await fetch(url).
pollState(v) ==
    IF v.isPolling \/ v.visibilityState # "visible" THEN v
    ELSE [v EXCEPT !.isPolling = TRUE,
                   !.pollCalls = Append(@, [pc |-> "fetching",
                                            sinceVersion |-> v.lastVersion,
                                            answer |-> Null,
                                            stored |-> Null])]

schedulePoll(v) ==
    IF v.visibilityState # "visible" THEN [v EXCEPT !.pollTimeoutId = NullId]
    ELSE LET id == FreshTimerId(v)
         IN  [v EXCEPT !.pollTimeoutId = id, !.pollTimers = @ \cup {id}]

\* pollState's finally block, ending the suspended call i.
pollStateFinally(v, i) ==
    schedulePoll([v EXCEPT !.isPolling = FALSE, !.pollCalls = RemoveAt(@, i)])

handleVisibilityChange(v) ==
    LET cleared == IF v.pollTimeoutId # NullId
                   THEN [v EXCEPT !.pollTimers = clearTimeout(@, v.pollTimeoutId),
                                  !.pollTimeoutId = NullId]
                   ELSE v
    IN  IF cleared.visibilityState # "visible" THEN cleared
        ELSE IF ~cleared.isPolling THEN pollState(cleared)
        ELSE cleared

\* The view after the module has loaded and run app.init(), the document
\* visible or not; the backend empty.
InitSync ==
    /\ visibilityState \in {"visible", "hidden"}
    /\ isPolling = (visibilityState = "visible")
    /\ pollCalls = IF visibilityState = "visible"
                   THEN <<[pc |-> "fetching", sinceVersion |-> 0,
                           answer |-> Null, stored |-> Null]>>
                   ELSE <<>>
    /\ pollTimeoutId = NullId
    /\ pollTimers = {}
    /\ lastVersion = 0
    /\ seenState = 0
    /\ kvRecord = Null
    /\ postHandlers = <<>>
    /\ storedLog = <<>>
    \* no evaluator function is called on its own
    /\ fnName = "none"
    /\ fnArgs = <<>>
    /\ fnResult = [done |-> FALSE]
    \* no decision is being taken
    /\ ctx = [players |-> <<>>]
    /\ playerSeat = 0
    /\ communityCards = <<>>
    /\ randomValues = <<>>
    /\ decision = [action |-> "none"]
    /\ isBluff = FALSE
    /\ path = {}
    /\ locals = [preflop |-> TRUE]
    /\ pc = "idle"
    \* the action queue is empty and idle
    /\ botActionQueue = <<>>
    /\ processingBotActions = FALSE
    /\ timers = <<>>
    /\ now = 0
    /\ enqueued = <<>>
    /\ executed = <<>>
    /\ stalled = FALSE

\* The view's variables take the values of v.
SetView(v) ==
    /\ visibilityState' = v.visibilityState
    /\ isPolling' = v.isPolling
    /\ pollTimeoutId' = v.pollTimeoutId
    /\ pollTimers' = v.pollTimers
    /\ pollCalls' = v.pollCalls
    /\ lastVersion' = v.lastVersion
    /\ seenState' = v.seenState

\* A POST /state arrives: handlePost reads the body; without state it
\* answers 400, otherwise it calls saveState, which awaits kv.get.
HandlePost ==
    /\ Len(postHandlers) < MaxPosts
    /\ \E payload \in PostPayloads(Len(postHandlers) + 1) :
         postHandlers' = Append(postHandlers,
                                [payload |-> payload,
                                 pc |-> IF payload.hasState THEN "getState" ELSE "rejected",
                                 current |-> Null])
    /\ UNCHANGED <<kvRecord, storedLog, visibilityState, isPolling, pollTimeoutId,
                   pollTimers, pollCalls, lastVersion, seenState, qvars, bvars, fvars>>

\* saveState: kv.get resolves with the current record; the handler builds
\* its record and awaits kv.set.
SaveStateGet ==
    \E h \in DOMAIN postHandlers :
      /\ postHandlers[h].pc = "getState"
      /\ postHandlers' = [postHandlers EXCEPT ![h].pc = "kvSet", ![h].current = kvRecord]
      /\ UNCHANGED <<kvRecord, storedLog, visibilityState, isPolling, pollTimeoutId,
                     pollTimers, pollCalls, lastVersion, seenState, qvars, bvars, fvars>>

\* saveState: kv.set stores the handler's record; handlePost answers.
SaveStateSet ==
    \E h \in DOMAIN postHandlers :
      /\ postHandlers[h].pc = "kvSet"
      /\ LET record == saveState(postHandlers[h].current, postHandlers[h].payload)
         IN  /\ kvRecord' = record
             /\ storedLog' = Append(storedLog, record.version)
      /\ postHandlers' = [postHandlers EXCEPT ![h].pc = "done"]
      /\ UNCHANGED <<visibilityState, isPolling, pollTimeoutId,
                     pollTimers, pollCalls, lastVersion, seenState, qvars, bvars, fvars>>

\* The kv entry expires (expireIn: 86_400_000 after it was set).
Expire ==
    /\ kvRecord # Null
    /\ kvRecord' = Null
    /\ UNCHANGED <<postHandlers, storedLog, visibilityState, isPolling, pollTimeoutId,
                   pollTimers, pollCalls, lastVersion, seenState, qvars, bvars, fvars>>

\* The backend answers a GET /state of the view: handleGet reads the record.
HandleGet ==
    \E i \in DOMAIN pollCalls :
      /\ pollCalls[i].pc = "fetching"
      /\ pollCalls[i].answer = Null
      /\ pollCalls' = [pollCalls EXCEPT
                         ![i].answer = handleGet(kvRecord, pollCalls[i].sinceVersion),
                         ![i].stored = kvRecord]
      /\ UNCHANGED <<kvRecord, postHandlers, storedLog, visibilityState, isPolling,
                     pollTimeoutId, pollTimers, lastVersion, seenState, qvars, bvars, fvars>>

\* fetch resolves with the backend's answer: 204 and a status that is not ok
\* go through finally at once, 200 awaits res.json().
FetchResolves ==
    \E i \in DOMAIN pollCalls :
      /\ pollCalls[i].pc = "fetching"
      /\ pollCalls[i].answer # Null
      /\ IF pollCalls[i].answer.status = 200
         THEN SetView([View EXCEPT !.pollCalls[i].pc = "parsing"])
         ELSE SetView(pollStateFinally(View, i))
      /\ UNCHANGED <<kvRecord, postHandlers, storedLog, qvars, bvars, fvars>>

\* fetch rejects (the backend is unreachable or the answer is lost): catch, finally.
FetchRejects ==
    \E i \in DOMAIN pollCalls :
      /\ pollCalls[i].pc = "fetching"
      /\ SetView(pollStateFinally(View, i))
      /\ UNCHANGED <<kvRecord, postHandlers, storedLog, qvars, bvars, fvars>>

\* res.json() resolves: lastVersion = payload.version, the payload is applied; finally.
JsonResolves ==
    \E i \in DOMAIN pollCalls :
      /\ pollCalls[i].pc = "parsing"
      /\ SetView(pollStateFinally([View EXCEPT
                                     !.lastVersion = pollCalls[i].answer.body.version,
                                     !.seenState = pollCalls[i].answer.body.state], i))
      /\ UNCHANGED <<kvRecord, postHandlers, storedLog, qvars, bvars, fvars>>

\* res.json() rejects (the body does not arrive): catch, finally.
JsonRejects ==
    \E i \in DOMAIN pollCalls :
      /\ pollCalls[i].pc = "parsing"
      /\ SetView(pollStateFinally(View, i))
      /\ UNCHANGED <<kvRecord, postHandlers, storedLog, qvars, bvars, fvars>>

\* A poll timer expires: the event loop calls pollState.
PollTimerFires ==
    \E id \in pollTimers :
      /\ SetView(pollState([View EXCEPT !.pollTimers = @ \ {id}]))
      /\ UNCHANGED <<kvRecord, postHandlers, storedLog, qvars, bvars, fvars>>

\* The document becomes hidden or visible: the visibilitychange listener runs.
VisibilityChange ==
    /\ \E visibility \in {"visible", "hidden"} \ {visibilityState} :
         SetView(handleVisibilityChange([View EXCEPT !.visibilityState = visibility]))
    /\ UNCHANGED <<kvRecord, postHandlers, storedLog, qvars, bvars, fvars>>

NextSync ==
    \/ HandlePost \/ SaveStateGet \/ SaveStateSet \/ Expire \/ HandleGet
    \/ FetchResolves \/ FetchRejects \/ JsonResolves \/ JsonRejects
    \/ PollTimerFires \/ VisibilityChange

SpecSync == InitSync /\ [][NextSync]_vars

(***************************************************************************)
(* Claims about chooseBotAction                                            *)
(***************************************************************************)
Returned == pc = "done"
Player == ctx.players[playerSeat]
NeedToCall == ctx.currentBet - Player.roundBet
Opponents == {i \in DOMAIN ctx.players : i # playerSeat}

\* C1: a returned raise has an amount of at least needToCall + lastRaise; a
\* raise below that minimum has been downgraded to call when chips are owed
\* and to check otherwise.
C1_MinRaise ==
    Returned =>
      /\ decision.action = "raise" => decision.amount >= NeedToCall + ctx.lastRaise
      /\ "minRaiseDowngrade" \in path =>
            decision = IF NeedToCall > 0 THEN Call(Min(Player.chips, NeedToCall)) ELSE Check

\* A shove of a stack smaller than the minimum raise came back as a call.
C1_Witness ==
    /\ Returned
    /\ {"shove", "minRaiseDowngrade"} \subseteq path
    /\ decision.action = "call"
    /\ Player.chips > 0
    /\ Player.chips < NeedToCall + ctx.lastRaise

\* C2: a returned call or raise never has an amount above the player's chips.
C2_AmountWithinChips ==
    Returned /\ decision.action \in {"call", "raise"} => decision.amount <= Player.chips

\* C3: with raisesThisRound at MAX_RAISES_PER_ROUND or above, the returned
\* action is never a raise.
C3_RaiseCap ==
    Returned /\ ctx.raisesThisRound >= MAX_RAISES_PER_ROUND => decision.action # "raise"

\* C4: the returned action is never a check while the player owes chips.
C4_NoCheckWhenOwing ==
    Returned /\ NeedToCall > 0 => decision.action # "check"

\* C5: facing a bet with an opponent all-in and strengthRatio above the
\* all-in defense threshold, the returned action is never a fold.
C5_AllInDefense ==
    /\ Returned
    /\ NeedToCall > 0
    /\ \E i \in Opponents : ctx.players[i].allIn
    /\ locals.strength2 * 50 >
         (IF Len(communityCards) = 0 THEN ALLIN_HAND_PREFLOP ELSE ALLIN_HAND_POSTFLOP)
    => decision.action # "fold"

\* The threshold branches folded and the all-in defense turned it into a call.
C5_Witness ==
    /\ Returned
    /\ NeedToCall > 0
    /\ \E i \in Opponents : ctx.players[i].allIn
    /\ locals.strength2 * 50 >
         (IF Len(communityCards) = 0 THEN ALLIN_HAND_PREFLOP ELSE ALLIN_HAND_POSTFLOP)
    /\ {"fold", "allInDefense"} \subseteq path
    /\ decision = Call(Min(Player.chips, NeedToCall))
    /\ Player.chips > 0

\* Pocket aces before the flop, nothing owed, no raise made yet this round,
\* more chips than the big blind and than lastRaise.
AcesUncontested ==
    /\ Len(communityCards) = 0
    /\ Player.cards[1].r = "A" /\ Player.cards[2].r = "A"
    /\ NeedToCall = 0
    /\ ctx.raisesThisRound = 0
    /\ Player.chips > ctx.bigBlind
    /\ Player.chips > ctx.lastRaise

\* C6: pocket aces preflop with nothing owed, no raise so far and chips above
\* the big blind and lastRaise always return a raise.
C6_AcesAlwaysRaise ==
    Returned /\ AcesUncontested => decision.action = "raise"

\* Aces raised through the threshold branch with a deep stack, against two
\* opponents with statistics.
C6_Witness ==
    /\ Returned
    /\ AcesUncontested
    /\ "valueRaise" \in path
    /\ decision.action = "raise"
    /\ Len(ctx.players) = 3
    /\ locals.weight > 0

\* C7: a player with no chips left gets check or fold, never a raise.
C7_NoChipsNoBet ==
    Returned /\ Player.chips = 0 => decision.action \in {"check", "fold"}

\* The shove condition, from the player and the context: stack-to-pot ratio
\* <= 1.2 and strengthRatio >= 0.65, or preflop with chips <= 10 big blinds
\* and strengthRatio >= 0.75.
ShoveHolds ==
    \/ /\ 10 * Player.chips <= 12 * Max(1, ctx.pot + NeedToCall)
       /\ locals.strength2 * 50 >= 650
    \/ /\ Len(communityCards) = 0
       /\ Player.chips <= 10 * ctx.bigBlind
       /\ locals.strength2 * 50 >= 750

\* C16 as stated: preflop, whenever the shove condition holds the call
\* returns a raise of all the player's chips.
C16_ShoveAlwaysWins ==
    Returned /\ Len(communityCards) = 0 /\ ShoveHolds => decision = Raise(Player.chips)

\* C16, amended: preflop, whenever the shove condition holds the call returns
\* a raise of all the player's chips if they reach needToCall + lastRaise;
\* otherwise it returns a call of min(chips, needToCall) when chips are owed
\* and a check when not.
C16_ShoveUnlessBelowMinimum ==
    Returned /\ Len(communityCards) = 0 /\ ShoveHolds =>
      decision = IF Player.chips >= NeedToCall + ctx.lastRaise THEN Raise(Player.chips)
                 ELSE IF NeedToCall > 0 THEN Call(Min(Player.chips, NeedToCall))
                 ELSE Check

\* A shove came back as a raise of all the chips.
C16_Witness ==
    /\ Returned
    /\ Len(communityCards) = 0
    /\ ShoveHolds
    /\ path = {"shove"}
    /\ Player.chips > 0
    /\ decision = Raise(Player.chips)

\* C17: facing no bet, the call returns check or raise, never fold or call.
C17_NoBetNoFoldNoCall ==
    Returned /\ NeedToCall <= 0 => decision.action \in {"check", "raise"}

\* Facing no bet, a shove below the minimum raise came back as a check.
C17_Witness ==
    /\ Returned
    /\ NeedToCall <= 0
    /\ {"shove", "minRaiseDowngrade"} \subseteq path
    /\ Player.chips > 0
    /\ decision = Check

\* The average of the hands observed over the opponents is below
\* MIN_HANDS_FOR_WEIGHT.
FewHandsObserved ==
    LET RECURSIVE Sum(_)
        Sum(S) == IF S = {} THEN 0
                  ELSE LET i == CHOOSE j \in S : TRUE
                       IN  ctx.players[i].stats.hands + Sum(S \ {i})
    IN  Opponents # {} /\ Sum(Opponents) < MIN_HANDS_FOR_WEIGHT * Cardinality(Opponents)

\* Counters an opponent may show after h hands.
CounterPattern(k, h) ==
    CASE k = 1 -> Stats(h, 0, 0, 0, 0)
      [] k = 2 -> Stats(h, h, 0, h, 0)
      [] k = 3 -> Stats(h, 0, h, 0, h)
      [] k = 4 -> Stats(h, h, h, h, h)

\* The context with every opponent's counters replaced, the hands kept.
WithCounters(k) ==
    [ctx EXCEPT !.players =
       [i \in DOMAIN ctx.players |->
          IF i = playerSeat THEN ctx.players[i]
          ELSE [ctx.players[i] EXCEPT
                  !.stats = CounterPattern(k, ctx.players[i].stats.hands)]]]

\* C19: with the average of the hands observed below MIN_HANDS_FOR_WEIGHT, the
\* call injects no bluff, and the same call with other folds, vpip, calls and
\* aggressiveActs counters of the opponents (same hands, cards, context and
\* random draws) returns the same decision, reading the same draws.
C19_NoEffectBelowMinHands ==
    Returned /\ FewHandsObserved =>
      /\ ~isBluff
      /\ "bluff" \notin path
      /\ \A k \in 1..4 :
           LET other == chooseBotAction(WithCounters(k), playerSeat, communityCards,
                                        randomValues)
           IN  /\ other.d = decision
               /\ ~other.isBluff
               /\ ~other.short
               /\ other.k = Len(randomValues)

\* Opponents that folded in hands observed, too few hands, and a check or
\* fold by a player who could have bluffed.
C19_Witness ==
    /\ Returned
    /\ FewHandsObserved
    /\ \E i \in Opponents : ctx.players[i].stats.folds > 0
    /\ locals.canRaise
    /\ ~locals.facingAllIn
    /\ decision.action \in {"check", "fold"}

(***************************************************************************)
(* Claims about the action queue                                           *)
(***************************************************************************)
Ids(log) == [i \in 1..Len(log) |-> log[i].id]

\* C8: the actions are executed in exactly the order they were enqueued, each
\* at most once and none skipped: at every moment the ids enqueued so far are
\* the ids executed so far followed by the ids still waiting in the queue.
C8_FifoOrder == Ids(enqueued) = Ids(executed) \o botActionQueue

\* Three actions have run, one of them enqueued by an executing action, and
\* another is still waiting.
C8_Witness ==
    /\ Len(executed) >= 3
    /\ Len(botActionQueue) >= 1
    /\ \E i \in 1..Len(executed) : enqueued[i].nested

\* C9: at most one processBotQueue timer is outstanding in every reachable
\* state, and one step (one timer expiry) executes at most one action.
C9_SingleTimer ==
    /\ [](Len(timers) <= 1)
    /\ [][Len(executed') <= Len(executed) + 1]_vars

\* A timer is outstanding after an executing action has enqueued another one.
C9_Witness ==
    /\ Len(timers) = 1
    /\ Len(executed) >= 2
    /\ \E i \in 1..Len(enqueued) : enqueued[i].nested

\* C10: no action runs inside enqueueBotAction: every action runs at least
\* BOT_ACTION_DELAY after its enqueue, and two consecutive executions are at
\* least BOT_ACTION_DELAY apart.
C10_PacedExecution ==
    /\ Len(executed) <= Len(enqueued)
    /\ \A i \in 1..Len(executed) :
         /\ i <= Len(enqueued) => executed[i].at >= enqueued[i].at + BOT_ACTION_DELAY
         /\ i > 1 => executed[i].at - executed[i - 1].at >= BOT_ACTION_DELAY

\* Two executions exactly one delay apart, the first one enqueued when idle.
C10_Witness ==
    /\ Len(executed) >= 2
    /\ executed[1].at = enqueued[1].at + BOT_ACTION_DELAY
    /\ executed[2].at = executed[1].at + BOT_ACTION_DELAY

\* The scheduler is idle and every action enqueued so far has been executed.
IdleDrained ==
    /\ botActionQueue = <<>>
    /\ ~processingBotActions
    /\ timers = <<>>
    /\ Ids(enqueued) = Ids(executed)

\* C11: also after an action has thrown, the processing flag does not stay
\* true forever with no timer outstanding, and every action enqueued is
\* eventually executed.
C11_NoStallAfterThrow ==
    /\ ~<>[](processingBotActions /\ timers = <<>>)
    /\ []<>(Ids(enqueued) = Ids(executed))

\* C12: as long as no action has thrown, the scheduler keeps coming back to
\* the idle state with every enqueued action executed; an enqueue in the idle
\* state starts one timer of BOT_ACTION_DELAY; and processingBotActions is
\* true exactly when a timer is outstanding.
C12_DrainsToIdle ==
    /\ []<>(stalled \/ IdleDrained)
    /\ [][IdleDrained /\ Len(enqueued') > Len(enqueued)
            => processingBotActions' /\ timers' = <<now + BOT_ACTION_DELAY>>]_vars
    /\ [](~stalled => (processingBotActions <=> Len(timers) > 0))

\* Three actions have run without a throw, the scheduler is idle again, and
\* it was idle before when the third one was enqueued.
C12_Witness ==
    /\ IdleDrained
    /\ ~stalled
    /\ Len(executed) >= 3
    /\ \E i \in 2..Len(enqueued) :
         ~enqueued[i].nested /\ enqueued[i].at >= executed[i - 1].at

(***************************************************************************)
(* Claims about the evaluator functions                                    *)
(***************************************************************************)
Scored == fnName = "preflopHandScore" /\ fnResult.done
PocketPair == fnArgs[1].r = fnArgs[2].r

\* C13: preflopHandScore gives the same score with its two cards swapped,
\* pocket pairs included.
C13_ScoreSymmetric ==
    Scored => fnResult.value = preflopHandScore(fnArgs[2], fnArgs[1])

\* The lower card came first (the function swaps) and the score is not zero.
C13_Witness ==
    /\ Scored
    /\ indexOf(fnArgs[1].r) < indexOf(fnArgs[2].r)
    /\ fnResult.value > 0
    /\ fnResult.value = preflopHandScore(fnArgs[2], fnArgs[1])

\* C14: the score lies in [0, 10]; pocket aces score 10; a pocket pair
\* scores its doubled base, floored at 5 before the adjustments (for a pair
\* only the connector bonus below the queen applies), capped at 10.
C14_ScoreRange ==
    Scored =>
      /\ fnResult.value \in 0..20
      /\ fnArgs[1].r = "A" /\ fnArgs[2].r = "A" => fnResult.value = 20
      /\ PocketPair =>
            fnResult.value =
              Min(20, Max(10, 2 * base2(fnArgs[1].r))
                        + (IF indexOf(fnArgs[1].r) < indexOf("Q") THEN 2 ELSE 0))

\* Pocket twos: the doubled base 2 is floored at 5, the bonus makes it 6.
C14_Witness ==
    /\ Scored
    /\ fnArgs[1].r = "2" /\ fnArgs[2].r = "2"
    /\ fnResult.value = 12

\* C15: two different ranks in one suit score at least what the same ranks
\* score in two different suits.
C15_SuitedAtLeastOffsuit ==
    Scored /\ ~PocketPair /\ fnArgs[1].s = fnArgs[2].s =>
      \A s \in Suits \ {fnArgs[1].s} :
         fnResult.value >= preflopHandScore(fnArgs[1], Card(fnArgs[2].r, s))

\* Suited connectors that score strictly more than their offsuit version.
C15_Witness ==
    /\ Scored
    /\ ~PocketPair
    /\ fnArgs[1].s = fnArgs[2].s
    /\ \A s \in Suits \ {fnArgs[1].s} :
         fnResult.value > preflopHandScore(fnArgs[1], Card(fnArgs[2].r, s))

\* The ranks of the cards given, the ace counted as 14 and as 1.
ArgRanks ==
    LET ranks == {indexOf(fnArgs[i].r) + 2 : i \in DOMAIN fnArgs}
    IN  IF 14 \in ranks THEN ranks \cup {1} ELSE ranks

\* The windows of five contiguous ranks, by the number of their ranks present.
WindowsWith(n) ==
    {start \in 1..10 : Cardinality({r \in start..(start + 4) : r \in ArgRanks}) = n}

\* C18: straightDraw is false whenever some window of five contiguous ranks
\* is complete, and otherwise true exactly when some window holds four of
\* its five ranks.
C18_StraightDraw ==
    fnName = "analyzeDrawPotential" /\ fnResult.done =>
      fnResult.value.straightDraw = (WindowsWith(5) = {} /\ WindowsWith(4) # {})

\* C20: the texture of a board of fewer than three cards is 0; so is that
\* of a flop of three suits, three ranks and no three consecutive ranks;
\* every result lies in [0, 1].
C20_TextureRange ==
    fnName = "evaluateBoardTexture" /\ fnResult.done =>
      /\ Len(fnArgs) < 3 => fnResult.value = 0
      /\ ( /\ Len(fnArgs) = 3
           /\ Cardinality({fnArgs[i].s : i \in 1..3}) = 3
           /\ Cardinality({fnArgs[i].r : i \in 1..3}) = 3
           /\ ~\E a \in ArgRanks : {a + 1, a + 2} \subseteq ArgRanks )
         => fnResult.value = 0
      /\ fnResult.value \in 0..TextureUnit

\* The flop 2C 7D KS has texture 0.
C20_Witness ==
    /\ fnName = "evaluateBoardTexture" /\ fnResult.done
    /\ {<<fnArgs[i].r, fnArgs[i].s>> : i \in DOMAIN fnArgs}
         = {<<"2", "C">>, <<"7", "D">>, <<"K", "S">>}
    /\ fnResult.value = 0

(***************************************************************************)
(* Claims about the sizing functions                                       *)
(***************************************************************************)
\* C21: each of the four sizing functions returns a multiple of 10 that is
\* at most player.chips, whatever the pot, the amount owed, the stack and
\* the random jitter.
C21_SizeCappedAtChips ==
    fnName \in SizingNames /\ fnResult.done =>
      /\ fnResult.value % 10 = 0
      /\ fnResult.value <= locals.chips

(***************************************************************************)
(* Claims about the backend sync                                           *)
(***************************************************************************)
\* C22: every record stored for the table has a version strictly greater
\* than that of every record stored before it, and the backend never
\* answers 204 to the view's poll while the stored state differs from the
\* state the view saw last.
C22_VersionsIncrease ==
    /\ \A i, j \in DOMAIN storedLog : i < j => storedLog[i] < storedLog[j]
    /\ \A i \in DOMAIN pollCalls :
         (pollCalls[i].answer # Null /\ pollCalls[i].answer.status = 204)
           => pollCalls[i].stored.state = seenState

\* The state fetches in flight: the pollState calls suspended at an await.
FetchesInFlight == Len(pollCalls)

\* C23: in the hole-cards view at most one state fetch is in flight and at
\* most one poll timer is pending, never both; while the document is
\* visible one of the two exists, and while it is hidden no poll timer is
\* pending.
C23_OneFetchOrOneTimer ==
    /\ FetchesInFlight <= 1
    /\ Cardinality(pollTimers) <= 1
    /\ ~(FetchesInFlight > 0 /\ pollTimers # {})
    /\ visibilityState = "visible" => FetchesInFlight + Cardinality(pollTimers) = 1
    /\ visibilityState = "hidden" => pollTimers = {}

\* The document has been hidden after a poll that fetched a record: no
\* timer is pending, pollTimeoutId is null and no fetch is in flight.
C23_Witness ==
    /\ visibilityState = "hidden"
    /\ lastVersion > 0
    /\ FetchesInFlight = 0
    /\ pollTimers = {}
    /\ pollTimeoutId = NullId

====
